---- MODULE Spec2Model ----
(***************************************************************************)
(* A model of MemoryManager (src/src/MemoryHandler.ts): the singleton that *)
(* keeps a Set of MemoryHandler objects, samples performance.memory from a *)
(* setInterval timer and, when used/total exceeds the threshold, calls     *)
(* clearCache on the handlers by iterating the live Set.                   *)
(*                                                                         *)
(* JavaScript runs one synchronous call to completion before the event     *)
(* loop starts another, so the public methods are single steps.  The one   *)
(* place where foreign code runs in the middle of a method is the          *)
(* handler.clearCache() call inside clearAllCaches: the broadcast is       *)
(* therefore modelled step by step (pc, cyc), and while a clearCache call  *)
(* is on the stack the handler may re-enter the manager.                   *)
(***************************************************************************)
EXTENDS Integers, Sequences, FiniteSets, TLC

\* ---------------------------------------------------------------- bounds
NumHandlers == 2      \* MemoryHandler objects that exist
MaxObjects  == 2      \* MemoryManager objects the heap can hold
MaxHeap     == 5      \* largest usedJSHeapSize sampled
MaxCalls    == 2      \* clearCache calls per handler and cycle counted (saturating)

\* ------------------------------------------------------ program constants
DefaultCheckInterval == 10000   \* checkInterval: number = 10000
DefaultThresholdNum  == 4       \* threshold: number = 0.8, as 4/5
DefaultThresholdDen  == 5

HeapTotal == DefaultThresholdDen

Handlers == 1..NumHandlers
Contexts == {"main", "task"}   \* the callers that obtain the manager through getInstance
Objects  == 1..MaxObjects

VARIABLES
  instance,        \* static MemoryManager.instance: 0 (undefined) or an object
  nObjects,        \* how many times the private constructor has run
  memoryHandlers,  \* per object: the Set, as its list of entries in insertion order
  checkInterval,   \* per object
  threshold,       \* per object: <<numerator, denominator>>
  timerId,         \* per object: 0 (undefined) or the id setInterval returned
  timers,          \* the host's active interval timers: [id, obj]
  nextTimer,       \* the id the next setInterval call returns
  ref,             \* per context: the object its last getInstance returned, or 0
  pc,              \* "idle" | "loop" (in the for-of) | "clear" (inside clearCache)
  cyc,             \* the sampling cycle in progress
  calls,           \* per handler: clearCache calls received in the cycle
  lastOp,          \* per handler: its last register/deregister call ("deregIn":
                   \* a deregister that removed it during the running cycle)
  stopped,         \* stopMemoryCheck has returned at least once
  ev,              \* what the last step did
  alive            \* the process has not been ended by an uncaught error

vars == <<instance, nObjects, memoryHandlers, checkInterval, threshold, timerId,
          timers, nextTimer, ref, pc, cyc, calls, lastOp, stopped, ev, alive>>

\* ------------------------------------------------------------ JS built-ins
Range(s) == {s[i] : i \in 1..Len(s)}

IndexOf(s, h) == CHOOSE i \in 1..Len(s) : s[i] = h

\* Set.prototype.add: appends the value unless it is already an entry.
\* (variant: appends without the membership test)
SetAddAlways(s, h) == Append(s, h)
SetAdd(s, h) == IF h \in Range(s) THEN s ELSE Append(s, h)

\* Set.prototype.delete: removes the entry, no effect when there is none.
\* (variant: leaves the entry in place)
SetDeleteNothing(s, h) == s
SetDelete(s, h) == SelectSeq(s, LAMBDA x : x # h)

\* A live Set iterator that has passed idx entries, after h is deleted: an
\* entry it had passed no longer counts, the entries still ahead stay ahead.
IterAfterDelete(s, idx, h) ==
  IF h \in Range(s) /\ IndexOf(s, h) <= idx THEN idx - 1 ELSE idx

\* performance.memory: absent, or an object with the two heap sizes.  The
\* sampled totals are 0 and the threshold's denominator, so that used/total
\* runs over 0, 1/5, ..., 1, NaN and Infinity, and meets the threshold exactly.
Absent == [present |-> FALSE, used |-> 0, total |-> 0]
MemValues ==
  {Absent} \cup [present : {TRUE}, used : 0..MaxHeap, total : {0, HeapTotal}]

\* usedMemory / totalMemory > this.threshold, in IEEE doubles: x/0 is Infinity
\* for x > 0 and 0/0 is NaN, which compares false.
\* (variant: compares with >=)
ExceedsOrEqual(used, total, thr) ==
  IF total = 0 THEN used > 0 ELSE used * thr[2] >= thr[1] * total
Exceeds(used, total, thr) ==
  IF total = 0 THEN used > 0 ELSE used * thr[2] > thr[1] * total

\* ------------------------------------------------------------------ state
NoCycle == [obj |-> 0, src |-> "none", idx |-> 0, cur |-> 0,
            steady |-> {}, afterStop |-> FALSE]
NoEvent == [type |-> "none"]
NoCalls == [h \in Handlers |-> 0]

Init ==
  /\ instance = 0
  /\ nObjects = 0
  /\ memoryHandlers = [o \in Objects |-> <<>>]
  /\ checkInterval = [o \in Objects |-> 0]
  /\ threshold = [o \in Objects |-> <<0, 1>>]
  /\ timerId = [o \in Objects |-> 0]
  /\ timers = {}
  /\ nextTimer = 1
  /\ ref = [c \in Contexts |-> 0]
  /\ pc = "idle"
  /\ cyc = NoCycle
  /\ calls = NoCalls
  /\ lastOp = [h \in Handlers |-> "none"]
  /\ stopped = FALSE
  /\ ev = NoEvent
  /\ alive = TRUE

\* A call made between cycles: the record of the last cycle is dropped.
Forget == calls' = NoCalls /\ cyc' = NoCycle

\* --------------------------------------------------------------- getInstance
\* if (!MemoryManager.instance)
\* (variants: constructs on every call; constructs again when the timer of
\* the stored object has been stopped)
AlwaysConstruct == TRUE
ConstructWhenStopped == instance = 0 \/ timerId[instance] = 0
NeedsConstruction == instance = 0

\* getInstance: on the first call the constructor sets the two fields and
\* startMemoryCheck stores the id of a new interval timer; the result is the
\* static field.  Returns through instance'.
\* (variant: the new object is not stored in the static field)
GetInstanceBodyNoStore ==
  IF NeedsConstruction
  THEN LET o == nObjects + 1 IN
       /\ nObjects < MaxObjects
       /\ nObjects' = o
       /\ checkInterval' = [checkInterval EXCEPT ![o] = DefaultCheckInterval]
       /\ threshold' = [threshold EXCEPT ![o] = <<DefaultThresholdNum, DefaultThresholdDen>>]
       /\ timerId' = [timerId EXCEPT ![o] = nextTimer]
       /\ timers' = timers \cup {[id |-> nextTimer, obj |-> o]}
       /\ nextTimer' = nextTimer + 1
       /\ instance' = instance
  ELSE UNCHANGED <<nObjects, checkInterval, threshold, timerId, timers,
                   nextTimer, instance>>
\* (variant: the constructor does not call startMemoryCheck)
GetInstanceBodyNoTimer ==
  IF NeedsConstruction
  THEN LET o == nObjects + 1 IN
       /\ nObjects < MaxObjects
       /\ nObjects' = o
       /\ checkInterval' = [checkInterval EXCEPT ![o] = DefaultCheckInterval]
       /\ threshold' = [threshold EXCEPT ![o] = <<DefaultThresholdNum, DefaultThresholdDen>>]
       /\ instance' = o
       /\ UNCHANGED <<timerId, timers, nextTimer>>
  ELSE UNCHANGED <<nObjects, checkInterval, threshold, timerId, timers,
                   nextTimer, instance>>
GetInstanceBody ==
  IF NeedsConstruction
  THEN LET o == nObjects + 1 IN
       /\ nObjects < MaxObjects
       /\ nObjects' = o
       /\ checkInterval' = [checkInterval EXCEPT ![o] = DefaultCheckInterval]
       /\ threshold' = [threshold EXCEPT ![o] = <<DefaultThresholdNum, DefaultThresholdDen>>]
       /\ timerId' = [timerId EXCEPT ![o] = nextTimer]
       /\ timers' = timers \cup {[id |-> nextTimer, obj |-> o]}
       /\ nextTimer' = nextTimer + 1
       /\ instance' = o
  ELSE UNCHANGED <<nObjects, checkInterval, threshold, timerId, timers,
                   nextTimer, instance>>

GetInstance(c) ==
  /\ alive /\ pc = "idle"
  /\ GetInstanceBody
  /\ ref' = [ref EXCEPT ![c] = instance']
  /\ Forget
  /\ ev' = [type |-> "get", ctx |-> c]
  /\ UNCHANGED <<memoryHandlers, pc, lastOp, stopped, alive>>

\* ------------------------------------------------- register / deregister
RegisterCacheManager(c, h) ==
  /\ alive /\ pc = "idle" /\ ref[c] # 0
  /\ memoryHandlers' = [memoryHandlers EXCEPT ![ref[c]] = SetAdd(@, h)]
  /\ lastOp' = [lastOp EXCEPT ![h] = "reg"]
  /\ Forget
  /\ ev' = [type |-> "register", h |-> h]
  /\ UNCHANGED <<instance, nObjects, checkInterval, threshold, timerId, timers,
                 nextTimer, ref, pc, stopped, alive>>

DeregisterCacheManager(c, h) ==
  /\ alive /\ pc = "idle" /\ ref[c] # 0
  /\ memoryHandlers' = [memoryHandlers EXCEPT ![ref[c]] = SetDelete(@, h)]
  /\ lastOp' = [lastOp EXCEPT ![h] = "dereg"]
  /\ Forget
  /\ ev' = [type |-> "deregister", h |-> h]
  /\ UNCHANGED <<instance, nObjects, checkInterval, threshold, timerId, timers,
                 nextTimer, ref, pc, stopped, alive>>

\* ---------------------------------------------------------- stopMemoryCheck
\* if (this.timerId) { clearInterval(this.timerId); this.timerId = undefined; }
\* (variants: without the clearInterval call; without resetting timerId;
\* starting a timer when none is active)
StopKeepsTimer(o) ==
  /\ timers' = timers
  /\ timerId' = [timerId EXCEPT ![o] = 0]
StopKeepsId(o) ==
  /\ timers' = {t \in timers : t.id # timerId[o]}
  /\ timerId' = timerId
StopToggles(o) ==
  IF timerId[o] # 0
  THEN /\ timers' = {t \in timers : t.id # timerId[o]}
       /\ timerId' = [timerId EXCEPT ![o] = 0]
  ELSE /\ timers' = timers \cup {[id |-> nextTimer, obj |-> o]}
       /\ timerId' = [timerId EXCEPT ![o] = nextTimer]
StopBody(o) ==
  IF timerId[o] # 0
  THEN /\ timers' = {t \in timers : t.id # timerId[o]}
       /\ timerId' = [timerId EXCEPT ![o] = 0]
  ELSE UNCHANGED <<timers, timerId>>

StopMemoryCheck(c) ==
  /\ alive /\ pc = "idle" /\ ref[c] # 0
  /\ StopBody(ref[c])
  /\ stopped' = TRUE
  /\ Forget
  /\ ev' = [type |-> "stop", active |-> timerId[ref[c]] # 0]
  /\ UNCHANGED <<instance, nObjects, memoryHandlers, checkInterval, threshold,
                 nextTimer, ref, pc, lastOp, alive>>

\* --------------------------------------------------------- checkMemoryUsage
\* One run of checkMemoryUsage on object o with performance.memory = m.  With
\* the ratio over the threshold it enters clearAllCaches (pc = "loop");
\* otherwise, and when memory is absent, it only logs and returns.
\* A deregistration made inside a cycle counts as made before the next one.
Settle(l) == [h \in Handlers |-> IF l[h] = "deregIn" THEN "dereg" ELSE l[h]]

\* (variant: broadcasts also when memory is absent)
CheckTreatsAbsentAsHigh(o, m) == ~m.present \/ Exceeds(m.used, m.total, threshold[o])
CheckBroadcasts(o, m) == m.present /\ Exceeds(m.used, m.total, threshold[o])

CheckMemoryUsage(o, src, m) ==
  /\ ev' = [type |-> "check", src |-> src, mem |-> m, obj |-> o]
  /\ calls' = NoCalls
  /\ IF CheckBroadcasts(o, m)
     THEN /\ pc' = "loop"
          /\ cyc' = [obj |-> o, src |-> src, idx |-> 0, cur |-> 0,
                     steady |-> Range(memoryHandlers[o]),
                     afterStop |-> stopped]
     ELSE /\ pc' = "idle"
          /\ cyc' = NoCycle
  /\ lastOp' = Settle(lastOp)
  /\ UNCHANGED <<instance, nObjects, memoryHandlers, checkInterval, threshold,
                 timerId, timers, nextTimer, ref, stopped, alive>>

\* The interval timer's callback: () => { this.checkMemoryUsage(); }
TimerFire(t, m) ==
  /\ alive /\ pc = "idle"
  /\ t \in timers
  /\ CheckMemoryUsage(t.obj, "timer", m)

\* A direct call, as the test makes: memoryManager["checkMemoryUsage"]()
CheckDirect(c, m) ==
  /\ alive /\ pc = "idle" /\ ref[c] # 0
  /\ CheckMemoryUsage(ref[c], "direct", m)

\* ------------------------------------------------------------ clearAllCaches
Bump(n) == IF n < MaxCalls THEN n + 1 ELSE MaxCalls

\* for (const handler of this.memoryHandlers): the iterator moves to the next
\* entry of the live Set and calls its clearCache, or is exhausted and
\* clearAllCaches, checkMemoryUsage and the caller's frame return.
LoopNext ==
  /\ alive /\ pc = "loop"
  /\ LET s == memoryHandlers[cyc.obj] IN
     IF cyc.idx < Len(s)
     THEN LET h == s[cyc.idx + 1] IN
          /\ pc' = "clear"
          /\ cyc' = [cyc EXCEPT !.idx = cyc.idx + 1, !.cur = h]
          /\ calls' = [calls EXCEPT ![h] = Bump(@)]
          /\ ev' = NoEvent
     ELSE /\ pc' = "idle"
          /\ ev' = [type |-> "done", src |-> cyc.src]
          /\ UNCHANGED <<cyc, calls>>
  /\ UNCHANGED <<instance, nObjects, memoryHandlers, checkInterval, threshold,
                 timerId, timers, nextTimer, ref, lastOp, stopped, alive>>

\* handler.clearCache() returns.
ClearReturn ==
  /\ alive /\ pc = "clear"
  /\ pc' = "loop"
  /\ cyc' = [cyc EXCEPT !.cur = 0]
  /\ ev' = NoEvent
  /\ UNCHANGED <<instance, nObjects, memoryHandlers, checkInterval, threshold,
                 timerId, timers, nextTimer, ref, calls, lastOp, stopped, alive>>

\* handler.clearCache() throws.  Nothing between the call and the timer
\* callback catches: the for-of, clearAllCaches and checkMemoryUsage are left,
\* and the error reaches the direct caller or is raised out of the timer
\* callback.  The host then ends the process (Deno's default for an uncaught
\* error) or, with an "error" listener that prevents the default, goes on.
ClearThrow ==
  /\ alive /\ pc = "clear"
  /\ pc' = "idle"
  /\ ev' = [type |-> "throw", src |-> cyc.src]
  /\ alive' \in (IF cyc.src = "timer" THEN BOOLEAN ELSE {TRUE})
  /\ UNCHANGED <<instance, nObjects, memoryHandlers, checkInterval, threshold,
                 timerId, timers, nextTimer, ref, cyc, calls, lastOp, stopped>>

\* ---------------------------------------- calls made from inside clearCache
\* The handler reaches the manager as the documentation shows, through
\* MemoryManager.getInstance(), which now returns `instance`.
NestedGetInstance ==
  /\ alive /\ pc = "clear"
  /\ GetInstanceBody
  /\ ev' = NoEvent
  /\ UNCHANGED <<memoryHandlers, ref, pc, cyc, calls, lastOp, stopped, alive>>

NestedRegister(h) ==
  /\ alive /\ pc = "clear"
  /\ memoryHandlers' = [memoryHandlers EXCEPT ![instance] = SetAdd(@, h)]
  /\ lastOp' = [lastOp EXCEPT ![h] = "reg"]
  /\ ev' = NoEvent
  /\ UNCHANGED <<instance, nObjects, checkInterval, threshold, timerId, timers,
                 nextTimer, ref, pc, cyc, calls, stopped, alive>>

NestedDeregister(h) ==
  /\ alive /\ pc = "clear"
  /\ memoryHandlers' = [memoryHandlers EXCEPT ![instance] = SetDelete(@, h)]
  /\ lastOp' = [lastOp EXCEPT ![h] =
                  IF h \in Range(memoryHandlers[instance]) \/ @ = "deregIn"
                  THEN "deregIn" ELSE "dereg"]
  /\ cyc' = IF instance = cyc.obj
            THEN [cyc EXCEPT !.idx = IterAfterDelete(memoryHandlers[instance], @, h),
                             !.steady = @ \ {h}]
            ELSE cyc
  /\ ev' = NoEvent
  /\ UNCHANGED <<instance, nObjects, checkInterval, threshold, timerId, timers,
                 nextTimer, ref, pc, calls, stopped, alive>>

NestedStop ==
  /\ alive /\ pc = "clear"
  /\ StopBody(instance)
  /\ stopped' = TRUE
  /\ ev' = NoEvent
  /\ UNCHANGED <<instance, nObjects, memoryHandlers, checkInterval, threshold,
                 nextTimer, ref, pc, cyc, calls, lastOp, alive>>

\* ------------------------------------------------------------ specification
Next ==
  \/ \E c \in Contexts : GetInstance(c)
  \/ \E c \in Contexts, h \in Handlers : RegisterCacheManager(c, h)
  \/ \E c \in Contexts, h \in Handlers : DeregisterCacheManager(c, h)
  \/ \E c \in Contexts : StopMemoryCheck(c)
  \/ \E t \in timers, m \in MemValues : TimerFire(t, m)
  \/ \E c \in Contexts, m \in MemValues : CheckDirect(c, m)
  \/ LoopNext
  \/ ClearReturn
  \/ ClearThrow
  \/ NestedGetInstance
  \/ \E h \in Handlers : NestedRegister(h)
  \/ \E h \in Handlers : NestedDeregister(h)
  \/ NestedStop

Spec == Init /\ [][Next]_vars

TypeOK ==
  /\ instance \in 0..MaxObjects
  /\ nObjects \in 0..MaxObjects
  /\ \A o \in Objects : Range(memoryHandlers[o]) \subseteq Handlers
  /\ timerId \in [Objects -> 0..MaxObjects]
  /\ ref \in [Contexts -> 0..MaxObjects]
  /\ pc \in {"idle", "loop", "clear"}
  /\ calls \in [Handlers -> 0..MaxCalls]
  /\ lastOp \in [Handlers -> {"none", "reg", "dereg", "deregIn"}]
  /\ stopped \in BOOLEAN
  /\ alive \in BOOLEAN

\* ------------------------------------------------------------------ claims
\* What a step is, read off the state before and after it.
CheckStarts == pc = "idle" /\ ev'.type = "check"
ClearCacheInvoked == pc = "loop" /\ pc' = "clear"
CycleDone == pc = "idle" /\ ev.type = "done"

\* used/total against the default threshold 0.8, in exact arithmetic.
RatioAtMostThreshold(m) ==
  m.present /\ m.total > 0
  /\ m.used * DefaultThresholdDen <= DefaultThresholdNum * m.total
RatioEqualsThreshold(m) ==
  m.present /\ m.total > 0
  /\ m.used * DefaultThresholdDen = DefaultThresholdNum * m.total

NoDuplicates(s) == Cardinality(Range(s)) = Len(s)

\* C1: when a cycle whose ratio exceeded the threshold has finished, every
\* handler that stayed registered through the cycle has received exactly one
\* clearCache call, no handler has received more than one, and a handler that
\* was not registered at any time of the cycle has received none.
C1_ExactlyOncePerCycle ==
  CycleDone =>
    \A h \in Handlers :
      /\ h \in cyc.steady => calls[h] = 1
      /\ calls[h] <= 1
      /\ lastOp[h] \in {"none", "dereg"} => calls[h] = 0

\* C2: a checkMemoryUsage run with used/total <= threshold starts no
\* broadcast (no clearCache call) and leaves the registry and the timer alone.
C2_NoBroadcastAtOrBelowThreshold ==
  [][(CheckStarts /\ RatioAtMostThreshold(ev'.mem)) =>
       /\ pc' = "idle"
       /\ calls' = NoCalls
       /\ UNCHANGED <<memoryHandlers, timerId, timers>>]_vars

C2_Witness ==
  /\ ev.type = "check"
  /\ RatioEqualsThreshold(ev.mem)
  /\ Len(memoryHandlers[ev.obj]) > 0
  /\ timerId[ev.obj] # 0

\* C3: the registry is the net effect of the register/deregister calls: a
\* handler is an entry iff its last call was a register, and never twice.
C3_RegistryIsNetEffect ==
  instance # 0 =>
    /\ NoDuplicates(memoryHandlers[instance])
    /\ \A h \in Handlers :
         h \in Range(memoryHandlers[instance]) <=> lastOp[h] = "reg"

C3_Witness ==
  /\ instance # 0
  /\ ev.type = "deregister"
  /\ Len(memoryHandlers[instance]) > 0
  /\ \A h \in Handlers : lastOp[h] # "none"

\* C4 as stated: once stopMemoryCheck has returned, no timer-driven
\* checkMemoryUsage starts and no timer-driven clearCache is invoked.
C4_NoTimerClearCacheAfterStop ==
  [][stopped =>
       /\ ~(CheckStarts /\ ev'.src = "timer")
       /\ ~(ClearCacheInvoked /\ cyc.src = "timer")]_vars

\* C4 as amended: once stopMemoryCheck has returned, no timer-driven
\* checkMemoryUsage starts; a timer-driven clearCache call is made only by a
\* cycle that had started before stopMemoryCheck first returned.
C4_NoTimerCycleStartsAfterStop ==
  [][/\ stopped => ~(CheckStarts /\ ev'.src = "timer")
     /\ (ClearCacheInvoked /\ cyc.src = "timer") => ~cyc.afterStop]_vars

C4_Witness ==
  /\ stopped
  /\ ev.type = "register"
  /\ instance # 0
  /\ Len(memoryHandlers[instance]) = NumHandlers

\* C5: a handler whose last call is a deregister made before the cycle
\* started receives no clearCache call.
C5_DeregisteredNotCalled ==
  [][ClearCacheInvoked => lastOp[cyc'.cur] # "dereg"]_vars

C5_Witness ==
  /\ pc = "loop"
  /\ cyc.idx = Len(memoryHandlers[cyc.obj])
  /\ \E h \in Handlers : lastOp[h] = "dereg" /\ calls[h] = 0
  /\ \E h \in Handlers : calls[h] = 1

\* C6: every getInstance result is the one object: the references held are
\* all `instance`, no second object exists, and a cycle run through any
\* reference iterates the registry every other reference registers into.
C6_SameInstance ==
  /\ \A c \in Contexts : ref[c] # 0 => ref[c] = instance
  /\ \A o \in Objects : o # instance =>
       memoryHandlers[o] = <<>> /\ timerId[o] = 0 /\ checkInterval[o] = 0
  /\ pc # "idle" => cyc.obj = instance

C6_Witness ==
  /\ \A c \in Contexts : ref[c] # 0
  /\ pc = "clear"
  /\ cyc.src = "direct"
  /\ Len(memoryHandlers[cyc.obj]) = NumHandlers

\* C7: in whatever order the callers' first getInstance calls run, the
\* constructor runs once and one interval timer is started.
C7_ConstructedOnce ==
  /\ nObjects <= 1
  /\ nextTimer = nObjects + 1
  /\ (\E c \in Contexts : ref[c] # 0) => nObjects = 1

C7_Witness ==
  /\ \A c \in Contexts : ref[c] # 0
  /\ ev.type = "get"

\* C8: timerId is defined iff the object's interval timer is active, and it
\* names that timer; once stopMemoryCheck has returned it is undefined and
\* no timer is active.
C8_TimerIdIffActive ==
  /\ \A o \in 1..nObjects :
       /\ timerId[o] # 0 <=> (\E t \in timers : t.obj = o)
       /\ \A t \in timers : t.obj = o => t.id = timerId[o]
  /\ stopped => instance # 0 /\ timerId[instance] = 0 /\ timers = {}

C8_Witness == ev.type = "stop" /\ stopped /\ nObjects = 1

\* C9: with performance.memory absent, checkMemoryUsage returns normally,
\* starts no broadcast and leaves the registry and the timer alone.
C9_AbsentMemoryIsSkipped ==
  [][(CheckStarts /\ ~ev'.mem.present) =>
       /\ pc' = "idle"
       /\ alive'
       /\ calls' = NoCalls
       /\ UNCHANGED <<memoryHandlers, timerId, timers>>]_vars

C9_Witness ==
  /\ ev.type = "check"
  /\ ~ev.mem.present
  /\ ev.src = "timer"
  /\ Len(memoryHandlers[ev.obj]) > 0

\* C10: no error is raised out of the timer callback, and the process keeps
\* running so that later cycles occur.
C10_FailuresContained ==
  /\ ~(ev.type = "throw" /\ ev.src = "timer")
  /\ alive

\* C11: stopMemoryCheck called when sampling is already stopped changes
\* nothing: timerId stays undefined, no timer appears, the registry is kept
\* and the call returns normally.
C11_StopIsIdempotent ==
  [][(pc = "idle" /\ ev'.type = "stop" /\ timerId[instance] = 0) =>
       /\ timerId'[instance] = 0
       /\ UNCHANGED <<timers, timerId, nextTimer, memoryHandlers, instance>>
       /\ alive']_vars

C11_Witness ==
  /\ ev.type = "stop"
  /\ ~ev.active
  /\ Len(memoryHandlers[instance]) > 0

\* C12: the first getInstance call leaves the Monitor SAMPLING: the timer
\* is active and named by timerId, the registry is empty, the interval is
\* 10000 ms and the threshold is 0.8.
C12_ConstructedSampling ==
  [][(pc = "idle" /\ ev'.type = "get" /\ instance = 0) =>
       /\ instance' # 0
       /\ ref'[ev'.ctx] = instance'
       /\ timerId'[instance'] # 0
       /\ [id |-> timerId'[instance'], obj |-> instance'] \in timers'
       /\ memoryHandlers'[instance'] = <<>>
       /\ checkInterval'[instance'] = 10000
       /\ threshold'[instance'][1] * 10 = 8 * threshold'[instance'][2]]_vars

C12_Witness ==
  /\ ev.type = "get"
  /\ Cardinality({c \in Contexts : ref[c] # 0}) = 1
  /\ timers # {}
  /\ ~stopped
  /\ \A h \in Handlers : lastOp[h] = "none"

\* C13: a clearCache call is made only on a handler whose last call is a
\* register: a handler removed while the broadcast is in progress is not
\* called from then on, so the calls it has received were all dispatched
\* before its deregistration.
C13_RemovedDuringBroadcastNotCalled ==
  [][/\ ClearCacheInvoked => lastOp[cyc'.cur] = "reg"
     /\ \A h \in Handlers :
          (lastOp[h] = "deregIn" /\ lastOp'[h] = "deregIn") =>
            calls'[h] <= calls[h]]_vars

C13_Witness ==
  /\ pc = "loop"
  /\ cyc.idx = Len(memoryHandlers[cyc.obj])
  /\ \E h \in Handlers : lastOp[h] = "deregIn" /\ calls[h] = 0
  /\ \E h \in Handlers : lastOp[h] = "reg" /\ calls[h] = 1

\* C14: once stopMemoryCheck has been called inside a cycle, the cycle still
\* ends with a clearCache call made on every handler that stayed registered.
C14_CycleFinishesAfterStop ==
  (/\ pc = "idle"
   /\ ev.type \in {"done", "throw"}
   /\ stopped /\ ~cyc.afterStop) =>
    \A h \in cyc.steady : calls[h] >= 1

\* C15: at most one interval timer is active, and it is the one timerId
\* names, so that stopMemoryCheck can cancel it.
C15_OneCancellableTimer ==
  /\ Cardinality(timers) <= 1
  /\ \A t \in timers : t.obj = instance /\ timerId[t.obj] = t.id

C15_Witness ==
  /\ timers # {}
  /\ \A c \in Contexts : ref[c] # 0
  /\ ev.type = "get"
  /\ Len(memoryHandlers[instance]) > 0

\* C16: a cycle makes at most one clearCache call per handler, whatever the
\* handlers' clearCache registers or deregisters during the scan.
C16_AtMostOnePerHandler ==
  pc # "idle" => \A h \in Handlers : calls[h] <= 1

\* C17: while the manager has been constructed and stopMemoryCheck has not
\* been called, the interval timer stays able to fire: the process runs and
\* the timer is active.
C17_TimerKeepsFiring ==
  (instance # 0 /\ ~stopped) => (alive /\ timers # {})

\* C18: once stopMemoryCheck has returned, no step brings sampling back: no
\* timer is active or started, timerId stays undefined, no object is
\* constructed, and getInstance returns the existing instance.
C18_StoppedIsAbsorbing ==
  [][stopped =>
       /\ stopped'
       /\ timers' = {}
       /\ timerId'[instance'] = 0
       /\ UNCHANGED <<instance, nObjects, nextTimer>>
       /\ ev'.type = "get" => ref'[ev'.ctx] = instance]_vars

C18_Witness ==
  /\ stopped
  /\ ev.type = "get"
  /\ ref[ev.ctx] = instance
  /\ timerId[instance] = 0
  /\ \E c \in Contexts : ref[c] = 0

\* C19, the frame conditions: register and deregister leave the timer alone,
\* stopMemoryCheck leaves the registry alone, the steps of a cycle itself
\* leave the registry alone, a call made from inside clearCache changes the
\* registry or the timer but not both, and a direct checkMemoryUsage with the
\* ratio over the threshold starts a broadcast over the whole registry also
\* when the timer is stopped.
C19_FrameEffects ==
  [][/\ (pc = "idle" /\ ev'.type \in {"register", "deregister"}) =>
          UNCHANGED <<timerId, timers, nextTimer>>
     /\ (pc = "idle" /\ ev'.type = "stop") => UNCHANGED memoryHandlers
     /\ (CheckStarts \/ pc = "loop" \/ (pc = "clear" /\ pc' # "clear")) =>
          UNCHANGED memoryHandlers
     /\ (pc = "clear" /\ pc' = "clear") =>
          (UNCHANGED memoryHandlers \/ UNCHANGED <<timerId, timers, nextTimer>>)
     /\ (/\ CheckStarts /\ ev'.src = "direct" /\ timerId[ev'.obj] = 0
         /\ ev'.mem.present
         /\ Exceeds(ev'.mem.used, ev'.mem.total, threshold[ev'.obj])) =>
          (pc' = "loop" /\ cyc'.steady = Range(memoryHandlers[ev'.obj]))]_vars

\* C19, the consequence: a cycle started by a direct checkMemoryUsage call
\* after stopMemoryCheck ends with a clearCache call made on every handler
\* that stayed registered.
C19_StoppedDirectCheckReachesAll ==
  (/\ pc = "idle"
   /\ ev.type \in {"done", "throw"}
   /\ cyc.src = "direct" /\ cyc.afterStop) =>
    \A h \in cyc.steady : calls[h] >= 1

====
